---- MODULE Spec2Model ----
(***************************************************************************)
(* Model of the Stagehand/MongoDB scraper: the document-store gateway      *)
(* (mongodb.ts), the three scrape operations (scraper.ts) and the          *)
(* orchestrator main (index.ts).                                           *)
(*                                                                         *)
(* The program is single-threaded: every call is awaited before the next   *)
(* one is made, so a gateway or scrape call is one atomic action whose     *)
(* result is computed by composing the calls it makes.  The outcomes of    *)
(* the external collaborators (MongoClient constructor and connect, the    *)
(* insert calls, page.goto, page.extract) are inputs drawn with \E.        *)
(***************************************************************************)
EXTENDS Integers, Sequences, FiniteSets, TLC

\* ------------------------------------------------------------------ bounds
MaxClients == 2      \* MongoClient objects created in one behaviour
MaxDocs    == 2      \* documents held by the three collections together
MaxBatch   == 2      \* longest sequence handed to a direct storeData call
MaxScrapeDocs == 3   \* documents held by the store when scrapes are called
MaxList    == 2      \* product entries in an extracted list (direct scrape)
MaxReviews == 2      \* reviews in one extracted reviews page
MaxUrlLen  == 8      \* longest product url of the url derivation check
MaxMainList == 4     \* product entries the list scrape of a main run returns

\* --------------------------------------------------------------- constants
Null == 0            \* `null` of client / db
ItemLimit == 3       \* productList.products.slice(0, 3)

PRODUCTS      == "products"
PRODUCT_LISTS == "product_lists"
REVIEWS       == "reviews"
COLLECTIONS   == {PRODUCTS, PRODUCT_LISTS, REVIEWS}

VARIABLES
  client,        \* module variable client: Null or the id of a MongoClient
  db,            \* module variable db: Null or the id of a Db handle
  clients,       \* every MongoClient created so far: id -> transport status
  handles,       \* number of Db handles created by client.db(DB_NAME)
  connectCalls,  \* number of client.connect() calls made
  closeCalls,    \* number of client.close() calls made
  coll,          \* the document store: collection name -> sequence of docs
  live,          \* handle returned by the first successful connectToMongo
                 \* since the last closeMongo call (Null if none)
  lastCall,      \* the last top-level call: arguments, outcome, state before
  pageUrl,       \* the url handed to the last page.goto
  argUrl,        \* the productUrl argument of a direct scrapeProductReviews
  pc,            \* main: the statement it is at ("idle" when main is not run)
  productsToScrape,  \* main: productList.products.slice(0, 3)
  listed,        \* main: <<productList>> once scrapeProductList returned it
  index,         \* main: index of the loop over productsToScrape (from 0)
  events         \* main: the calls it has started or seen fail, in order

mainVars == <<pc, productsToScrape, listed, index, events>>

vars == <<client, db, clients, handles, connectCalls, closeCalls, coll,
          live, lastCall, pageUrl, argUrl, pc, productsToScrape, listed,
          index, events>>

\* The gateway state as one value, threaded through the calls below.
G == [client |-> client, db |-> db, clients |-> clients, handles |-> handles,
      connectCalls |-> connectCalls, closeCalls |-> closeCalls, coll |-> coll]

SetG(g) ==
  /\ client' = g.client
  /\ db' = g.db
  /\ clients' = g.clients
  /\ handles' = g.handles
  /\ connectCalls' = g.connectCalls
  /\ closeCalls' = g.closeCalls
  /\ coll' = g.coll

TotalDocs(g) ==
  Len(g.coll[PRODUCTS]) + Len(g.coll[PRODUCT_LISTS]) + Len(g.coll[REVIEWS])

\* --------------------------------------------------- external collaborators
\* new MongoClient(uri) may throw (malformed uri); client.connect() may reject.
ConnOutcomes == {"ok", "ctor_throws", "connect_rejects"}

\* The transport is consulted only when connectToMongo gets past `if (db)`.
ConnChoices == IF db # Null THEN {"ok"} ELSE ConnOutcomes

\* insertOne / insertMany: "ok", or fail after k documents became durable.
InsertOutcomes(n) == {<<"ok", n>>} \cup {<<"fail", k>> : k \in 0..(n - 1)}

\* The insert is reached only when the connection was obtained.
InsertChoices(co, n) == IF co = "ok" THEN InsertOutcomes(n) ELSE {<<"ok", n>>}

\* The read is reached only when the connection was obtained.
ReadChoices(co) == IF co = "ok" THEN {"ok", "fail"} ELSE {"ok"}

\* ------------------------------------------------------------ connectToMongo
\* connectToMongo without the `if (db) return db` line.
connectToMongoAlwaysReconnects(g, co) ==
  IF co = "ctor_throws"
  THEN [g |-> g, raised |-> TRUE, ret |-> Null]
  ELSE LET id == Len(g.clients) + 1
           g1 == [g EXCEPT !.client = id,
                           !.clients = Append(g.clients, "new"),
                           !.connectCalls = g.connectCalls + 1]
       IN IF co = "connect_rejects"
          THEN [g |-> [g1 EXCEPT !.clients[id] = "failed"],
                raised |-> TRUE, ret |-> Null]
          ELSE LET h == g.handles + 1
               IN [g |-> [g1 EXCEPT !.clients[id] = "connected",
                                    !.handles = h, !.db = h],
                   raised |-> FALSE, ret |-> h]

connectToMongo(g, co) ==
  IF g.db # Null
  THEN [g |-> g, raised |-> FALSE, ret |-> g.db]
  ELSE IF co = "ctor_throws"
  THEN [g |-> g, raised |-> TRUE, ret |-> Null]
  ELSE LET id == Len(g.clients) + 1
           g1 == [g EXCEPT !.client = id,
                           !.clients = Append(g.clients, "new"),
                           !.connectCalls = g.connectCalls + 1]
       IN IF co = "connect_rejects"
          THEN [g |-> [g1 EXCEPT !.clients[id] = "failed"],
                raised |-> TRUE, ret |-> Null]
          ELSE LET h == g.handles + 1
               IN [g |-> [g1 EXCEPT !.clients[id] = "connected",
                                    !.handles = h, !.db = h],
                   raised |-> FALSE, ret |-> h]

\* --------------------------------------------------------------- closeMongo
\* client.close() is taken to resolve: it is awaited outside any try block
\* and releases the transport of a client whatever state that client is in.
closeMongo(g) ==
  IF g.client # Null
  THEN [g EXCEPT !.clients[g.client] = "closed",
                 !.closeCalls = g.closeCalls + 1,
                 !.client = Null,
                 !.db = Null]
  ELSE g

\* ---------------------------------------------------------------- storeData
\* collection.insertMany(docs): the first io[2] documents become durable.
insertMany(g, name, docs, io) ==
  [g EXCEPT !.coll[name] = g.coll[name] \o SubSeq(docs, 1, io[2])]

\* collection.insertOne(doc)
insertOne(g, name, doc, io) ==
  IF io[1] = "ok" THEN [g EXCEPT !.coll[name] = Append(g.coll[name], doc)]
                  ELSE g

\* storeData without the Array.isArray branch: a sequence goes to insertOne.
storeDataNoArrayBranch(g, name, data, isArray, co, io) ==
  LET c == connectToMongo(g, co)
  IN IF c.raised
     THEN [g |-> c.g, raised |-> TRUE, database |-> Null]
     ELSE [g |-> insertOne(c.g, name, data, io),
           raised |-> io[1] # "ok", database |-> c.ret]

\* data is a sequence when isArray, a single document otherwise.
storeData(g, name, data, isArray, co, io) ==
  LET c == connectToMongo(g, co)
  IN IF c.raised
     THEN [g |-> c.g, raised |-> TRUE, database |-> Null]
     ELSE IF isArray
     THEN IF Len(data) > 0
          THEN [g |-> insertMany(c.g, name, data, io),
                raised |-> io[1] # "ok", database |-> c.ret]
          ELSE [g |-> c.g, raised |-> FALSE, database |-> c.ret]
     ELSE [g |-> insertOne(c.g, name, data, io),
           raised |-> io[1] # "ok", database |-> c.ret]

\* ----------------------------------------------------------------- findData
\* query {}, query { rating: { $gte: 4 } } and
\* query { reviewCount: { $exists: true } }
Queries == {"all", "ratingGte4", "hasReviewCount"}

Matches(doc, query) ==
  \/ query = "all"
  \/ /\ query = "ratingGte4"
     /\ "rating" \in DOMAIN doc
     /\ doc.rating >= 4
  \/ /\ query = "hasReviewCount"
     /\ "reviewCount" \in DOMAIN doc

\* ro is the outcome of collection.find(query).toArray(): "ok" or "fail".

findData(g, name, query, co, ro) ==
  LET c == connectToMongo(g, co)
  IN IF c.raised
     THEN [g |-> c.g, raised |-> TRUE, database |-> Null, ret |-> <<>>]
     ELSE IF ro = "fail"
     THEN [g |-> c.g, raised |-> TRUE, database |-> c.ret, ret |-> <<>>]
     ELSE [g |-> c.g, raised |-> FALSE, database |-> c.ret,
           ret |-> SelectSeq(c.g.coll[name], LAMBDA d : Matches(d, query))]

\* ------------------------------------------------------------ aggregateData
\* The pipeline [{$group: {_id: "$category", count: {$sum: 1}}},
\*               {$sort: {count: -1}}]: one row per category value (a
\* document without the field groups under "null"), highest count first.
CategoryOf(doc) == IF "category" \in DOMAIN doc THEN doc.category ELSE "null"

CountByCategory(docs) ==
  LET cats == {CategoryOf(docs[i]) : i \in 1..Len(docs)}
      cnt(c) == Cardinality({i \in 1..Len(docs) : CategoryOf(docs[i]) = c})
      rows == {[_id |-> c, count |-> cnt(c)] : c \in cats}
      n == Cardinality(rows)
  IN CHOOSE s \in [1..n -> rows] :
       /\ {s[i] : i \in 1..n} = rows
       /\ \A i \in 1..(n - 1) : s[i].count >= s[i + 1].count

aggregateData(g, name, co, ro) ==
  LET c == connectToMongo(g, co)
  IN IF c.raised
     THEN [g |-> c.g, raised |-> TRUE, database |-> Null, ret |-> <<>>]
     ELSE IF ro = "fail"
     THEN [g |-> c.g, raised |-> TRUE, database |-> c.ret, ret |-> <<>>]
     ELSE [g |-> c.g, raised |-> FALSE, database |-> c.ret,
           ret |-> CountByCategory(c.g.coll[name])]

\* The pipeline of query.ts:49-77: numericPrice is the price text without
\* "$" and "," converted to a number; one row holds its average (as the
\* pair sum, count), minimum and maximum over the collection.
ToDouble(price) == CASE price = "$1" -> 1
                     [] price = "$2" -> 2
                     [] OTHER -> 0

RECURSIVE Sum(_, _)
Sum(f, S) == IF S = {} THEN 0
             ELSE LET x == CHOOSE x \in S : TRUE
                  IN f[x] + Sum(f, S \ {x})

PriceRange(docs) ==
  LET priced == {i \in 1..Len(docs) : "price" \in DOMAIN docs[i]}
      num == [i \in priced |-> ToDouble(docs[i].price)]
  IN IF docs = <<>> THEN <<>>
     ELSE IF priced = {}
     THEN <<[_id |-> "null", avgPrice |-> <<>>, minPrice |-> <<>>,
             maxPrice |-> <<>>]>>
     ELSE <<[_id |-> "null",
             avgPrice |-> <<Sum(num, priced), Cardinality(priced)>>,
             minPrice |-> <<CHOOSE m \in {num[i] : i \in priced} :
                              \A i \in priced : m <= num[i]>>,
             maxPrice |-> <<CHOOSE m \in {num[i] : i \in priced} :
                              \A i \in priced : m >= num[i]>>]>>

\* aggregateData called with the price range pipeline.
aggregatePriceRange(g, name, co, ro) ==
  LET c == connectToMongo(g, co)
  IN IF c.raised
     THEN [g |-> c.g, raised |-> TRUE, database |-> Null, ret |-> <<>>]
     ELSE IF ro = "fail"
     THEN [g |-> c.g, raised |-> TRUE, database |-> c.ret, ret |-> <<>>]
     ELSE [g |-> c.g, raised |-> FALSE, database |-> c.ret,
           ret |-> PriceRange(c.g.coll[name])]

\* =========================================================== scraper.ts
\* A spread written after the explicit fields: the base's own fields win.
SpreadBaseWins(base, over) ==
  [k \in DOMAIN base \cup DOMAIN over |->
     IF k \in DOMAIN base THEN base[k] ELSE over[k]]

\* { ...base, k: v, ... }: the fields written last win.
Spread(base, over) ==
  [k \in DOMAIN base \cup DOMAIN over |->
     IF k \in DOMAIN over THEN over[k] ELSE base[k]]

\* new Date(): the capture time (its value plays no part in any operation).
NewDate == "now"

\* Outcome of the page calls of one scrape: page.goto rejects, a later
\* page call (waitForTimeout, evaluate, extract) rejects, or all resolve.
PageOutcomes == {"goto_rejects", "page_rejects", "ok"}

\* ------------------------------------------------------- scrapeProductList
\* scrapeProductList without the second storeData call.
scrapeProductListSkipsProducts(g, categoryUrl, po, data, co, io1, io2) ==
  IF po # "ok"
  THEN [g |-> g, raised |-> TRUE, nav |-> categoryUrl, stores |-> 0,
        database |-> Null, ret |-> Null]
  ELSE LET products == [i \in 1..Len(data.products) |->
                          Spread(data.products[i], [dateScraped |-> NewDate])]
           productList == [products |-> products,
                           category |-> data.category,
                           page |-> 1,
                           totalProducts |-> data.totalProducts,
                           websiteName |-> "Amazon",
                           dateScraped |-> NewDate]
           s1 == storeData(g, PRODUCT_LISTS, productList, FALSE, co, io1)
       IN [g |-> s1.g, raised |-> s1.raised, nav |-> categoryUrl,
           stores |-> 1, database |-> s1.database,
           ret |-> IF s1.raised THEN Null ELSE productList]

\* data is the result of page.extract: [products, category, totalProducts].
scrapeProductList(g, categoryUrl, po, data, co, io1, io2) ==
  IF po # "ok"
  THEN [g |-> g, raised |-> TRUE, nav |-> categoryUrl, stores |-> 0,
        database |-> Null, ret |-> Null]
  ELSE LET products == [i \in 1..Len(data.products) |->
                          Spread(data.products[i], [dateScraped |-> NewDate])]
           productList == [products |-> products,
                           category |-> data.category,
                           page |-> 1,
                           totalProducts |-> data.totalProducts,
                           websiteName |-> "Amazon",
                           dateScraped |-> NewDate]
           s1 == storeData(g, PRODUCT_LISTS, productList, FALSE, co, io1)
           s2 == storeData(s1.g, PRODUCTS, products, TRUE, co, io2)
       IN IF s1.raised
          THEN [g |-> s1.g, raised |-> TRUE, nav |-> categoryUrl,
                stores |-> 1, database |-> s1.database, ret |-> Null]
          ELSE [g |-> s2.g, raised |-> s2.raised, nav |-> categoryUrl,
                stores |-> 2, database |-> s1.database,
                ret |-> IF s2.raised THEN Null ELSE productList]

\* ---------------------------------------------------- scrapeProductDetails
\* scrapeProductDetails without the capture timestamp.
scrapeProductDetailsNoStamp(g, productUrl, po, product, co, io) ==
  IF po # "ok"
  THEN [g |-> g, raised |-> TRUE, nav |-> productUrl, stores |-> 0,
        database |-> Null, ret |-> Null]
  ELSE LET completeProduct == Spread(product, [url |-> productUrl])
           s == storeData(g, PRODUCTS, completeProduct, FALSE, co, io)
       IN [g |-> s.g, raised |-> s.raised, nav |-> productUrl, stores |-> 1,
           database |-> s.database,
           ret |-> IF s.raised THEN Null ELSE completeProduct]

\* scrapeProductDetails with the spread written last: the url the page
\* reports wins over the url the scrape was called with.
scrapeProductDetailsKeepsExtractedUrl(g, productUrl, po, product, co, io) ==
  IF po # "ok"
  THEN [g |-> g, raised |-> TRUE, nav |-> productUrl, stores |-> 0,
        database |-> Null, ret |-> Null]
  ELSE LET completeProduct == Spread([url |-> productUrl,
                                      dateScraped |-> NewDate], product)
           s == storeData(g, PRODUCTS, completeProduct, FALSE, co, io)
       IN [g |-> s.g, raised |-> s.raised, nav |-> productUrl, stores |-> 1,
           database |-> s.database,
           ret |-> IF s.raised THEN Null ELSE completeProduct]

\* product is the result of page.extract (ProductSchema without dateScraped).
scrapeProductDetails(g, productUrl, po, product, co, io) ==
  IF po # "ok"
  THEN [g |-> g, raised |-> TRUE, nav |-> productUrl, stores |-> 0,
        database |-> Null, ret |-> Null]
  ELSE LET completeProduct == Spread(product, [url |-> productUrl,
                                               dateScraped |-> NewDate])
           s == storeData(g, PRODUCTS, completeProduct, FALSE, co, io)
       IN [g |-> s.g, raised |-> s.raised, nav |-> productUrl, stores |-> 1,
           database |-> s.database,
           ret |-> IF s.raised THEN Null ELSE completeProduct]

\* ---------------------------------------------------- scrapeProductReviews
\* Strings are sequences of one-character strings.
DpMarker == <<"/", "d", "p", "/">>
ReviewsSegment == <<"/", "p", "r", "o", "d", "u", "c", "t", "-",
                    "r", "e", "v", "i", "e", "w", "s", "/">>

OccursAt(str, pat, i) ==
  /\ i >= 1
  /\ i + Len(pat) - 1 <= Len(str)
  /\ SubSeq(str, i, i + Len(pat) - 1) = pat

\* String.prototype.indexOf(pat, from): first position >= from, 0 if none.
RECURSIVE IndexFrom(_, _, _)
IndexFrom(str, pat, from) ==
  IF from + Len(pat) - 1 > Len(str) THEN 0
  ELSE IF OccursAt(str, pat, from) THEN from
  ELSE IndexFrom(str, pat, from + 1)

\* String.prototype.includes(pat)
Includes(str, pat) == IndexFrom(str, pat, 1) # 0

\* A replace that rewrites the last occurrence instead of the first.
ReplaceLast(str, pat, rep) ==
  LET occ == {i \in 1..Len(str) : OccursAt(str, pat, i)}
  IN IF occ = {} THEN str
     ELSE LET i == CHOOSE x \in occ : \A y \in occ : y <= x
          IN SubSeq(str, 1, i - 1) \o rep
               \o SubSeq(str, i + Len(pat), Len(str))

\* String.prototype.replace(pat, rep) with a string pattern: the first
\* occurrence only.
Replace(str, pat, rep) ==
  LET i == IndexFrom(str, pat, 1)
  IN IF i = 0 THEN str
     ELSE SubSeq(str, 1, i - 1) \o rep \o SubSeq(str, i + Len(pat), Len(str))

ReviewsUrl(productUrl) ==
  IF Includes(productUrl, DpMarker)
  THEN Replace(productUrl, DpMarker, ReviewsSegment)
  ELSE productUrl

\* review.date ? new Date(review.date) : undefined
ReviewDate(review) ==
  IF "date" \in DOMAIN review THEN <<"Date", review.date>>
  ELSE <<"undefined">>

\* scrapeProductReviews without the `reviews.length > 0` test.
scrapeProductReviewsAlwaysStores(g, productUrl, po, data, co, io) ==
  LET reviewsUrl == ReviewsUrl(productUrl)
  IN IF po # "ok"
     THEN [g |-> g, raised |-> TRUE, nav |-> reviewsUrl, stores |-> 0,
           database |-> Null]
     ELSE LET reviews == [i \in 1..Len(data.reviews) |->
                            Spread(data.reviews[i],
                                   [productId |-> data.productId,
                                    date |-> ReviewDate(data.reviews[i]),
                                    dateScraped |-> NewDate,
                                    verified |-> TRUE])]
              s == storeData(g, REVIEWS, reviews, TRUE, co, io)
          IN [g |-> s.g, raised |-> s.raised, nav |-> reviewsUrl,
              stores |-> 1, database |-> s.database]

\* data is the result of page.extract: [productId, reviews].
scrapeProductReviews(g, productUrl, po, data, co, io) ==
  LET reviewsUrl == ReviewsUrl(productUrl)
  IN IF po # "ok"
     THEN [g |-> g, raised |-> TRUE, nav |-> reviewsUrl, stores |-> 0,
           database |-> Null]
     ELSE LET reviews == [i \in 1..Len(data.reviews) |->
                            Spread(data.reviews[i],
                                   [productId |-> data.productId,
                                    date |-> ReviewDate(data.reviews[i]),
                                    dateScraped |-> NewDate,
                                    verified |-> TRUE])]
              s == storeData(g, REVIEWS, reviews, TRUE, co, io)
          IN IF Len(reviews) > 0
             THEN [g |-> s.g, raised |-> s.raised, nav |-> reviewsUrl,
                   stores |-> 1, database |-> s.database]
             ELSE [g |-> g, raised |-> FALSE, nav |-> reviewsUrl,
                   stores |-> 0, database |-> Null]

\* ------------------------------------------------------------ initial state
\* Module load: client = null, db = null, an empty store.
GatewayInit ==
  /\ client = Null
  /\ db = Null
  /\ clients = <<>>
  /\ handles = 0
  /\ connectCalls = 0
  /\ closeCalls = 0
  /\ coll = [c \in COLLECTIONS |-> <<>>]
  /\ live = Null
  /\ pageUrl = <<>>

\* main has not been started.
MainIdle ==
  /\ pc = "idle"
  /\ productsToScrape = <<>>
  /\ listed = <<>>
  /\ index = 0
  /\ events = <<>>

\* The bounds on the objects one behaviour may create.
WithinBounds(g) ==
  /\ Len(g.clients) <= MaxClients
  /\ TotalDocs(g) <= MaxDocs

\* live: the handle a successful connectToMongo returned, until closeMongo.
LiveAfter(database) == IF live # Null THEN live ELSE database

\* ===================================================== gateway call actions
\* Documents a caller hands to storeData directly: one record, or a batch
\* of n records.
DocA == [name |-> "a", rating |-> 4, category |-> "c"]

Batch(n) == [i \in 1..n |-> DocA]

Batches == {Batch(n) : n \in 0..MaxBatch}

ConnectCall ==
  \E co \in ConnChoices :
    \E r \in {connectToMongo(G, co)} :
       /\ WithinBounds(r.g)
       /\ SetG(r.g)
       /\ live' = LiveAfter(r.ret)
       /\ UNCHANGED <<pageUrl, argUrl, mainVars>>
       /\ lastCall' = [op |-> "connect", raised |-> r.raised, ret |-> r.ret,
                       pre |-> G, liveBefore |-> live]

CloseCall ==
  /\ SetG(closeMongo(G))
  /\ live' = Null
  /\ UNCHANGED <<pageUrl, argUrl, mainVars>>
  /\ lastCall' = [op |-> "close", raised |-> FALSE, pre |-> G,
                  liveBefore |-> live]

StoreCall ==
  \E name \in COLLECTIONS, isArray \in BOOLEAN, co \in ConnChoices :
    \E data \in (IF isArray THEN Batches ELSE {DocA}) :
      \E io \in InsertChoices(co, IF isArray THEN Len(data) ELSE 1) :
        \E r \in {storeData(G, name, data, isArray, co, io)} :
           /\ WithinBounds(r.g)
           /\ SetG(r.g)
           /\ live' = LiveAfter(r.database)
           /\ UNCHANGED <<pageUrl, argUrl, mainVars>>
           /\ lastCall' = [op |-> "store", raised |-> r.raised,
                           collection |-> name, data |-> data,
                           isArray |-> isArray, pre |-> G,
                           liveBefore |-> live]

FindCall ==
  \E name \in COLLECTIONS, query \in Queries, co \in ConnChoices :
   \E ro \in ReadChoices(co) :
    \E r \in {findData(G, name, query, co, ro)} :
       /\ WithinBounds(r.g)
       /\ SetG(r.g)
       /\ live' = LiveAfter(r.database)
       /\ UNCHANGED <<pageUrl, argUrl, mainVars>>
       /\ lastCall' = [op |-> "find", raised |-> r.raised, ret |-> r.ret,
                       collection |-> name, pre |-> G, liveBefore |-> live]

AggregateCall ==
  \E name \in COLLECTIONS, co \in ConnChoices :
   \E ro \in ReadChoices(co) :
    \E r \in {aggregateData(G, name, co, ro)} :
       /\ WithinBounds(r.g)
       /\ SetG(r.g)
       /\ live' = LiveAfter(r.database)
       /\ UNCHANGED <<pageUrl, argUrl, mainVars>>
       /\ lastCall' = [op |-> "aggregate", raised |-> r.raised,
                       ret |-> r.ret, collection |-> name, pre |-> G,
                       liveBefore |-> live]

NoCall == [op |-> "none", raised |-> FALSE]

InitGateway ==
  /\ GatewayInit
  /\ lastCall = NoCall
  /\ argUrl = <<>>
  /\ MainIdle

NextGateway ==
  \/ ConnectCall
  \/ CloseCall
  \/ StoreCall
  \/ FindCall
  \/ AggregateCall

\* Any sequence of gateway calls made by a caller.
SpecGateway == InitGateway /\ [][NextGateway]_vars

\* ================================================================== claims
\* C1: once connectToMongo has succeeded, every later connectToMongo call
\* made before any closeMongo returns that same handle, creates no
\* MongoClient and makes no client.connect() call.
C1_IdempotentConnect ==
  (lastCall.op = "connect" /\ lastCall.liveBefore # Null) =>
     /\ ~lastCall.raised
     /\ lastCall.ret = lastCall.liveBefore
     /\ Len(clients) = Len(lastCall.pre.clients)
     /\ connectCalls = lastCall.pre.connectCalls
     /\ client = lastCall.pre.client

C1_Witness ==
  /\ lastCall.op = "connect"
  /\ lastCall.liveBefore # Null
  /\ lastCall.ret = lastCall.liveBefore
  /\ Len(clients) >= 1

\* C2 (as claimed): storeData(name, []) inserts nothing and does not raise,
\* whether or not a connection is open when it is called.
C2_EmptyStoreNeverRaises ==
  (lastCall.op = "store" /\ lastCall.isArray /\ lastCall.data = <<>>) =>
     /\ ~lastCall.raised
     /\ coll = lastCall.pre.coll

\* C3: a storeData call that returns normally with a non-empty sequence of N
\* records appends exactly those N documents to the named collection and
\* leaves the other two collections unchanged; a single record appends 1.
Stored(call) == IF call.isArray THEN call.data ELSE <<call.data>>

C3_StoreAddsExactlyN ==
  (/\ lastCall.op = "store"
   /\ ~lastCall.raised
   /\ (lastCall.isArray => Len(lastCall.data) > 0)) =>
     /\ coll[lastCall.collection] =
          lastCall.pre.coll[lastCall.collection] \o Stored(lastCall)
     /\ Len(coll[lastCall.collection]) =
          Len(lastCall.pre.coll[lastCall.collection])
            + (IF lastCall.isArray THEN Len(lastCall.data) ELSE 1)
     /\ \A c \in COLLECTIONS \ {lastCall.collection} :
          coll[c] = lastCall.pre.coll[c]

C3_Witness ==
  /\ lastCall.op = "store"
  /\ ~lastCall.raised
  /\ lastCall.isArray
  /\ Len(lastCall.data) >= 2
  /\ Len(coll[lastCall.collection]) =
       Len(lastCall.pre.coll[lastCall.collection]) + Len(lastCall.data)

\* ====================================================== scrape call actions
CategoryUrl == <<"/", "s", "?", "k", "=", "l">>

UrlA == <<"/", "d", "p", "/", "A">>
UrlB == <<"/", "g", "p", "/", "B">>

\* Entries the extraction may return for a category page.
EntryA == [name |-> "A", price |-> "$1", url |-> UrlA, rating |-> 5]
EntryB == [name |-> "B", price |-> "$2", url |-> UrlB]

\* An extracted list of n entries: the entries alternate between the two.
ListResponse(n) ==
  [products |-> [i \in 1..n |-> IF i % 2 = 1 THEN EntryA ELSE EntryB],
   category |-> "laptops", totalProducts |-> n]

ListResponses(maxLen) == {ListResponse(n) : n \in 0..maxLen}

\* Products the extraction may return for a product page.
DetailResponses ==
  {[name |-> "A", price |-> "$1", url |-> <<"/", "x">>,
    category |-> "laptops", rating |-> 4]}

\* Review entries the extraction may return; the second one carries fields
\* of its own that the post-processing overwrites.
ReviewPlain == [rating |-> 5, content |-> "good"]
ReviewOwnFields == [rating |-> 1, content |-> "bad", date |-> "2024-01-01",
                    verified |-> FALSE, productId |-> "other"]

ReviewResponses(maxLen) ==
  {[productId |-> "B01",
    reviews |-> [i \in 1..n |-> IF i % 2 = 1 THEN ReviewOwnFields
                                             ELSE ReviewPlain]] :
     n \in 0..maxLen}

\* No extraction result exists when a page call rejected before it.
NoExtraction == [products |-> <<>>, reviews |-> <<>>]

Extracted(po, responses) == IF po = "ok" THEN responses ELSE {NoExtraction}

\* The gateway is reached only when the page calls resolved.
ConnChoicesAfter(po) == IF po = "ok" THEN ConnChoices ELSE {"ok"}

ScrapeWithinBounds(g) ==
  /\ Len(g.clients) <= MaxClients
  /\ TotalDocs(g) <= MaxScrapeDocs

ListScrapeCall ==
  \E po \in PageOutcomes :
   \E data \in Extracted(po, ListResponses(MaxList)),
      co \in ConnChoicesAfter(po) :
    \E io1 \in InsertChoices(co, 1) :
     \E io2 \in InsertChoices(io1[1], Len(data.products)) :
      \E r \in {scrapeProductList(G, CategoryUrl, po, data, co, io1, io2)} :
         /\ ScrapeWithinBounds(r.g)
         /\ SetG(r.g)
         /\ live' = LiveAfter(r.database)
         /\ pageUrl' = r.nav
         /\ UNCHANGED <<argUrl, mainVars>>
         /\ lastCall' = [op |-> "list", raised |-> r.raised, po |-> po,
                         data |-> data, stores |-> r.stores, ret |-> r.ret,
                         pre |-> G, liveBefore |-> live]

DetailsScrapeCall ==
  \E url \in {UrlB}, po \in PageOutcomes :
   \E product \in Extracted(po, DetailResponses), co \in ConnChoicesAfter(po) :
    \E io \in InsertChoices(co, 1) :
    \E r \in {scrapeProductDetails(G, url, po, product, co, io)} :
       /\ ScrapeWithinBounds(r.g)
       /\ SetG(r.g)
       /\ live' = LiveAfter(r.database)
       /\ pageUrl' = r.nav
         /\ UNCHANGED <<argUrl, mainVars>>
       /\ lastCall' = [op |-> "details", raised |-> r.raised, po |-> po,
                       url |-> url, data |-> product, stores |-> r.stores,
                       ret |-> r.ret, pre |-> G, liveBefore |-> live]

ReviewsScrapeCall(urls, responses) ==
  \E url \in urls, po \in PageOutcomes :
   \E data \in Extracted(po, responses), co \in ConnChoicesAfter(po) :
    \E io \in InsertChoices(co, Len(data.reviews)) :
      \E r \in {scrapeProductReviews(G, url, po, data, co, io)} :
         /\ ScrapeWithinBounds(r.g)
         /\ SetG(r.g)
         /\ live' = LiveAfter(r.database)
         /\ pageUrl' = r.nav
         /\ UNCHANGED <<argUrl, mainVars>>
         /\ lastCall' = [op |-> "reviews", raised |-> r.raised, po |-> po,
                         url |-> url, data |-> data, stores |-> r.stores,
                         pre |-> G, liveBefore |-> live]

ReviewsScrapeAny == ReviewsScrapeCall({UrlA}, ReviewResponses(MaxReviews))

NextScrape ==
  \/ ListScrapeCall
  \/ DetailsScrapeCall
  \/ ReviewsScrapeAny

\* Any sequence of scrape calls; the first one to reach the gateway connects.
SpecScrape == InitGateway /\ [][NextScrape]_vars

\* Documents the last call appended to collection c.
Added(c) == SubSeq(coll[c], Len(lastCall.pre.coll[c]) + 1, Len(coll[c]))

KeptPrefix(c) ==
  SubSeq(coll[c], 1, Len(lastCall.pre.coll[c])) = lastCall.pre.coll[c]

\* C4: a scrapeProductList call whose extraction holds K products and that
\* returns normally has added one document to product_lists, K documents to
\* products and none to reviews.
C4_ListScrapePersists ==
  (lastCall.op = "list" /\ ~lastCall.raised) =>
     /\ \A c \in COLLECTIONS : KeptPrefix(c)
     /\ Len(Added(PRODUCT_LISTS)) = 1
     /\ Len(Added(PRODUCTS)) = Len(lastCall.data.products)
     /\ Len(Added(REVIEWS)) = 0

C4_Witness ==
  /\ lastCall.op = "list"
  /\ ~lastCall.raised
  /\ Len(lastCall.data.products) >= 2
  /\ Len(Added(PRODUCTS)) >= 2

\* C5: a scrapeProductReviews call whose extraction holds zero reviews adds
\* no document to any collection, calls storeData not at all and returns
\* normally.
C5_EmptyReviewsNoOp ==
  (/\ lastCall.op = "reviews"
   /\ lastCall.po = "ok"
   /\ Len(lastCall.data.reviews) = 0) =>
     /\ ~lastCall.raised
     /\ lastCall.stores = 0
     /\ coll = lastCall.pre.coll
     /\ G = lastCall.pre

C5_Witness ==
  /\ lastCall.op = "reviews"
  /\ lastCall.po = "ok"
  /\ Len(lastCall.data.reviews) = 0
  /\ lastCall.pre.db = Null
  /\ ~lastCall.raised

\* Every review document the last call persisted is verified and carries
\* the product reference of the extraction.
PersistedReviewsMarked ==
  \A i \in 1..Len(Added(REVIEWS)) :
    /\ Added(REVIEWS)[i].verified = TRUE
    /\ Added(REVIEWS)[i].productId = lastCall.data.productId

\* C6 (as claimed): every review scrapeProductReviews persists is verified
\* and carries the extraction's product reference, and as many reviews are
\* persisted as were extracted.
C6_AllExtractedReviewsPersisted ==
  (lastCall.op = "reviews" /\ lastCall.po = "ok") =>
     /\ PersistedReviewsMarked
     /\ Len(Added(REVIEWS)) = Len(lastCall.data.reviews)

\* C6 (amended): every review scrapeProductReviews persists is verified and
\* carries the extraction's product reference; when the call returns
\* normally, as many reviews are persisted as were extracted.
C6_PersistedReviews ==
  (lastCall.op = "reviews" /\ lastCall.po = "ok") =>
     /\ KeptPrefix(REVIEWS)
     /\ PersistedReviewsMarked
     /\ ~lastCall.raised =>
          Len(Added(REVIEWS)) = Len(lastCall.data.reviews)

C6_Witness ==
  /\ lastCall.op = "reviews"
  /\ ~lastCall.raised
  /\ Len(lastCall.data.reviews) >= 2
  /\ Len(Added(REVIEWS)) = Len(lastCall.data.reviews)
  /\ \E i \in 1..Len(lastCall.data.reviews) :
       /\ "verified" \in DOMAIN lastCall.data.reviews[i]
       /\ lastCall.data.reviews[i].verified = FALSE

\* ===================================================== reviews url derivation
\* Product urls over the characters of the marker, up to MaxUrlLen long.
UrlChars == {"/", "d", "p"}

AllUrls == UNION {[1..n -> UrlChars] : n \in 0..MaxUrlLen}

InitUrl ==
  /\ GatewayInit
  /\ lastCall = NoCall
  /\ argUrl \in AllUrls
  /\ MainIdle

\* One scrapeProductReviews(page, argUrl) call.
ReviewsScrapeOnce ==
  /\ lastCall.op = "none"
  /\ ReviewsScrapeCall({argUrl}, ReviewResponses(1))

NextUrl == ReviewsScrapeOnce

SpecUrl == InitUrl /\ [][NextUrl]_vars

\* Positions of productUrl at which '/dp/' starts.
DpPositions(u) == {i \in 1..Len(u) : OccursAt(u, DpMarker, i)}

\* C7: scrapeProductReviews navigates to productUrl with the first '/dp/'
\* replaced by '/product-reviews/' and every other character kept, and to
\* productUrl itself when '/dp/' does not occur in it.
C7_ReviewsUrlDerivation ==
  lastCall.op = "reviews" =>
    LET u == lastCall.url
    IN IF DpPositions(u) = {}
       THEN pageUrl = u
       ELSE LET i == CHOOSE x \in DpPositions(u) :
                       \A y \in DpPositions(u) : x <= y
            IN /\ pageUrl = SubSeq(u, 1, i - 1) \o ReviewsSegment
                              \o SubSeq(u, i + 4, Len(u))
               /\ Len(pageUrl) = Len(u) + 13

C7_Witness ==
  /\ lastCall.op = "reviews"
  /\ Cardinality(DpPositions(lastCall.url)) >= 2
  /\ SubSeq(pageUrl, 1, 17) = ReviewsSegment
  /\ Cardinality(DpPositions(pageUrl)) = 1

\* ================================================= index.ts: main (515-592)
Min(a, b) == IF a < b THEN a ELSE b

\* The whole list, unsliced.
SliceTakesAll(products) == products

\* products.slice(0, 3)
Slice(products) == SubSeq(products, 1, Min(ItemLimit, Len(products)))

\* The for-of loop: the statement reached when the item at index i (from 0)
\* is the next one to take out of n items.
LoopAt(i, n) ==
  IF i < n THEN [pc |-> "details", index |-> i]
           ELSE [pc |-> "aggregate", index |-> i]

\* An inner catch that gives up the loop (the error leaves main's loop).
AfterItemFailureAbortsLoop(i, n) == [pc |-> "finally", index |-> i]

\* The inner catch (545-547) logs; the loop goes on with the next item.
AfterItemFailure(i, n) == LoopAt(i + 1, n)

\* An outer handler that leaves main without the finally block.
AfterRunFailureSkipsClose == "done"

\* An outer catch that starts the list scrape again.
AfterRunFailureRetriesList == "list"

\* The outer catch (586-587) logs; the finally block (588-591) follows.
AfterRunFailure == "finally"

Log(e) == events' = Append(events, e)

\* A loop body that reads the first entry at every iteration.
ItemAlwaysFirst == productsToScrape[1]

\* The item the loop is at, and its position in the list (from 1).
Item == productsToScrape[index + 1]

InitMain ==
  /\ GatewayInit
  /\ lastCall = NoCall
  /\ argUrl = <<>>
  /\ pc = "connect"
  /\ productsToScrape = <<>>
  /\ listed = <<>>
  /\ index = 0
  /\ events = <<>>

\* 517: await connectToMongo()
MainConnect ==
  /\ pc = "connect"
  /\ \E co \in ConnChoices :
      \E r \in {connectToMongo(G, co)} :
        /\ SetG(r.g)
        /\ live' = LiveAfter(r.ret)
        /\ events' = events \o <<<<"connect">>>>
                       \o (IF r.raised THEN <<<<"caughtRun">>>> ELSE <<>>)
        /\ pc' = IF r.raised THEN AfterRunFailure ELSE "list"
        /\ UNCHANGED <<lastCall, pageUrl, argUrl, productsToScrape, listed,
                       index>>

\* 525-529: productList = await scrapeProductList(page, categoryUrl);
\* productsToScrape = productList.products.slice(0, 3)
MainScrapeList ==
  /\ pc = "list"
  /\ \E po \in PageOutcomes :
      \E data \in Extracted(po, ListResponses(MaxMainList)),
         co \in ConnChoicesAfter(po) :
       \E io1 \in InsertChoices(co, 1) :
        \E io2 \in InsertChoices(io1[1], Len(data.products)) :
         \E r \in {scrapeProductList(G, CategoryUrl, po, data, co, io1, io2)} :
           /\ SetG(r.g)
           /\ live' = LiveAfter(r.database)
           /\ pageUrl' = r.nav
           /\ events' = events \o <<<<"list">>>>
                          \o (IF r.raised THEN <<<<"caughtRun">>>> ELSE <<>>)
           /\ IF r.raised
              THEN /\ pc' = AfterRunFailure
                   /\ UNCHANGED <<productsToScrape, listed, index>>
              ELSE /\ listed' = <<r.ret>>
                   /\ productsToScrape' = Slice(r.ret.products)
                   /\ index' = LoopAt(0, Len(Slice(r.ret.products))).index
                   /\ pc' = LoopAt(0, Len(Slice(r.ret.products))).pc
           /\ UNCHANGED <<lastCall, argUrl>>

\* 536: detailedProduct = await scrapeProductDetails(page, product.url)
MainScrapeDetails ==
  /\ pc = "details"
  /\ \E po \in PageOutcomes :
      \E product \in Extracted(po, DetailResponses),
         co \in ConnChoicesAfter(po) :
       \E io \in InsertChoices(co, 1) :
        \E r \in {scrapeProductDetails(G, Item.url, po, product, co, io)} :
          \E next \in {AfterItemFailure(index, Len(productsToScrape))} :
           /\ SetG(r.g)
           /\ live' = LiveAfter(r.database)
           /\ pageUrl' = r.nav
           /\ events' = events \o <<<<"details", index + 1, Item.url>>>>
                          \o (IF r.raised THEN <<<<"caughtItem", index + 1>>>>
                                          ELSE <<>>)
           /\ pc' = IF r.raised THEN next.pc ELSE "reviews"
           /\ index' = IF r.raised THEN next.index ELSE index
           /\ UNCHANGED <<lastCall, argUrl, productsToScrape, listed>>

\* Reviews pages the extraction may return during a main run.
MainReviewResponses == ReviewResponses(1)

\* 541: await scrapeProductReviews(page, product.url)
MainScrapeReviews ==
  /\ pc = "reviews"
  /\ \E po \in PageOutcomes :
      \E data \in Extracted(po, MainReviewResponses),
         co \in ConnChoicesAfter(po) :
       \E io \in InsertChoices(co, Len(data.reviews)) :
        \E r \in {scrapeProductReviews(G, Item.url, po, data, co, io)} :
          \E next \in {AfterItemFailure(index, Len(productsToScrape))} :
           /\ SetG(r.g)
           /\ live' = LiveAfter(r.database)
           /\ pageUrl' = r.nav
           /\ events' = events \o <<<<"reviews", index + 1, Item.url,
                                        Len(data.reviews)>>>>
                          \o (IF r.raised THEN <<<<"caughtItem", index + 1>>>>
                                          ELSE <<>>)
           /\ pc' = IF r.raised THEN next.pc ELSE "wait"
           /\ index' = IF r.raised THEN next.index ELSE index
           /\ UNCHANGED <<lastCall, argUrl, productsToScrape, listed>>

\* 544: await page.waitForTimeout(2000), the last statement of the try block
MainWait ==
  /\ pc = "wait"
  /\ \E rejects \in BOOLEAN :
      \E next \in {IF rejects
                   THEN AfterItemFailure(index, Len(productsToScrape))
                   ELSE LoopAt(index + 1, Len(productsToScrape))} :
        /\ events' = events \o <<<<"wait", index + 1>>>>
                       \o (IF rejects THEN <<<<"caughtItem", index + 1>>>>
                                      ELSE <<>>)
        /\ pc' = next.pc
        /\ index' = next.index
  /\ UNCHANGED <<client, db, clients, handles, connectCalls, closeCalls,
                 coll, live, lastCall, pageUrl, argUrl, productsToScrape,
                 listed>>

\* 560-563: await aggregateData(COLLECTIONS.PRODUCTS, [$group, $sort])
MainAggregate ==
  /\ pc = "aggregate"
  /\ \E co \in ConnChoices :
      \E ro \in ReadChoices(co) :
       \E r \in {aggregateData(G, PRODUCTS, co, ro)} :
         /\ SetG(r.g)
         /\ live' = LiveAfter(r.database)
         /\ events' = events \o <<<<"aggregate">>>>
                        \o (IF r.raised THEN <<<<"caughtRun">>>> ELSE <<>>)
         /\ pc' = IF r.raised THEN AfterRunFailure ELSE "find"
  /\ UNCHANGED <<lastCall, pageUrl, argUrl, productsToScrape, listed, index>>

\* 572-574: await findData(COLLECTIONS.PRODUCTS, { rating: { $gte: 4 } })
MainFind ==
  /\ pc = "find"
  /\ \E co \in ConnChoices :
      \E ro \in ReadChoices(co) :
       \E r \in {findData(G, PRODUCTS, "ratingGte4", co, ro)} :
         /\ SetG(r.g)
         /\ live' = LiveAfter(r.database)
         /\ events' = events \o <<<<"find">>>>
                        \o (IF r.raised THEN <<<<"caughtRun">>>> ELSE <<>>)
         /\ pc' = IF r.raised THEN AfterRunFailure ELSE "finally"
  /\ UNCHANGED <<lastCall, pageUrl, argUrl, productsToScrape, listed, index>>

\* 588-591: finally { await closeMongo() }
MainFinally ==
  /\ pc = "finally"
  /\ SetG(closeMongo(G))
  /\ live' = Null
  /\ Log(<<"close">>)
  /\ pc' = "done"
  /\ UNCHANGED <<lastCall, pageUrl, argUrl, productsToScrape, listed, index>>

NextMain ==
  \/ MainConnect
  \/ MainScrapeList
  \/ MainScrapeDetails
  \/ MainScrapeReviews
  \/ MainWait
  \/ MainAggregate
  \/ MainFind
  \/ MainFinally

\* One run of main.
SpecMain == InitMain /\ [][NextMain]_vars

\* The detail scrapes main has started, in order.
DetailAttempts == SelectSeq(events, LAMBDA e : e[1] = "details")

\* The entries main is to scrape in detail once the list holds `products`.
Selected(products) ==
  [i \in 1..Min(3, Len(products)) |-> <<"details", i, products[i].url>>]

IsPrefix(a, b) == Len(a) <= Len(b) /\ SubSeq(b, 1, Len(a)) = a

\* C8: when the list scrape returned L entries, main starts a detail scrape
\* for the first min(3, L) entries, in list order and once each, and for no
\* other entry; before the list scrape returned it starts none.
C8_DetailScrapesFirstThree ==
  /\ listed = <<>> => DetailAttempts = <<>>
  /\ listed # <<>> =>
       /\ IsPrefix(DetailAttempts, Selected(listed[1].products))
       /\ pc = "done" => DetailAttempts = Selected(listed[1].products)

C8_Witness ==
  /\ pc = "done"
  /\ listed # <<>>
  /\ Len(listed[1].products) > 3
  /\ Len(DetailAttempts) = 3

\* Positions of events at which the inner catch handled a failure of item i.
CaughtAt(i) == {p \in 1..Len(events) : events[p] = <<"caughtItem", i>>}

StartedAfter(p, kind) ==
  {q \in (p + 1)..Len(events) : events[q][1] = kind}

\* C9: when main has ended, after every failure of an item's detail or
\* reviews scrape the detail scrape of every later selected item was started,
\* and reporting was started.
C9_ItemFailureIsolated ==
  (pc = "done" /\ listed # <<>>) =>
     \A i \in 1..Len(productsToScrape) : \A p \in CaughtAt(i) :
        /\ \A j \in (i + 1)..Len(productsToScrape) :
             \E q \in StartedAfter(p, "details") : events[q][2] = j
        /\ StartedAfter(p, "aggregate") # {}

C9_Witness ==
  /\ pc = "done"
  /\ Len(productsToScrape) = 3
  /\ CaughtAt(1) # {}
  /\ CaughtAt(2) # {}
  /\ \E p \in CaughtAt(1) : events[p - 1][1] = "details"
  /\ \E p \in CaughtAt(2) : events[p - 1][1] = "reviews"
  /\ \E q \in 1..Len(events) : events[q][1] = "details" /\ events[q][2] = 3

\* C10: every run of main ends with client and db null and every MongoClient
\* it created closed, whichever step failed, and closeMongo is the last
\* gateway call of the run.
GatewayEvents ==
  SelectSeq(events, LAMBDA e : e[1] \in {"connect", "list", "details",
                                        "reviews", "aggregate", "find",
                                        "close"})

C10_RunEndsClosed ==
  pc = "done" =>
     /\ client = Null
     /\ db = Null
     /\ \A i \in 1..Len(clients) : clients[i] = "closed"
     /\ Len(GatewayEvents) >= 1
     /\ GatewayEvents[Len(GatewayEvents)] = <<"close">>
     /\ \A q \in 1..(Len(GatewayEvents) - 1) : GatewayEvents[q] # <<"close">>

C10_Witness ==
  /\ pc = "done"
  /\ client = Null
  /\ db = Null
  /\ closeCalls = 1
  /\ \E q \in 1..Len(events) : events[q] = <<"caughtRun">>
  /\ \E q \in 1..Len(events) : events[q] = <<"aggregate">>

\* ============================================== claims on closeMongo / client
\* The transport of the client held before the last call was connected.
ConnectionOpenBefore ==
  /\ lastCall.pre.client # Null
  /\ lastCall.pre.clients[lastCall.pre.client] = "connected"

\* C11 (as claimed): closeMongo called while no connection is open (never
\* connected, already closed, or after a failed connect) calls no
\* client.close() and changes no gateway state; in particular a closeMongo
\* that follows a closeMongo changes nothing.
C11_CloseWithoutConnectionIsNoOp ==
  (lastCall.op = "close" /\ ~ConnectionOpenBefore) =>
     /\ closeCalls = lastCall.pre.closeCalls
     /\ G = lastCall.pre

\* MongoClient objects created and not closed.
UnclosedClients == {i \in 1..Len(clients) : clients[i] # "closed"}

\* C17 (as claimed): over any sequence of gateway calls at most one
\* MongoClient is created and not yet closed (none is overwritten unclosed),
\* and client is set whenever db is set.
C17_AtMostOneUnclosedClient ==
  /\ Cardinality(UnclosedClients) <= 1
  /\ UnclosedClients \subseteq {client}
  /\ db # Null => client # Null

\* =============================================== query.ts: runQueries (11-136)
\* Object.entries(COLLECTIONS), in declaration order.
CollectionOrder == <<PRODUCTS, PRODUCT_LISTS, REVIEWS>>

\* A catch that returns from runQueries without the finally block.
QueriesAfterFailureSkipsClose == "q_done"

\* The catch (130-131) logs; the finally block (132-135) follows.
QueriesAfterFailure == "q_finally"

EmptyGateway ==
  [client |-> Null, db |-> Null, clients |-> <<>>, handles |-> 0,
   connectCalls |-> 0, closeCalls |-> 0,
   coll |-> [c \in COLLECTIONS |-> <<>>]]

\* The store left by a list scrape of n entries and a reviews scrape of m
\* reviews that both succeeded.
StoreAfter(n, m) ==
  LET l == scrapeProductList(EmptyGateway, CategoryUrl, "ok",
                             ListResponse(n), "ok", <<"ok", 1>>, <<"ok", n>>)
      data == CHOOSE d \in ReviewResponses(m) : Len(d.reviews) = m
      r == scrapeProductReviews(l.g, UrlA, "ok", data, "ok", <<"ok", m>>)
  IN r.g.coll

\* The process starts with client and db null; the store holds what earlier
\* scrapes left in it.
InitQueries ==
  /\ client = Null
  /\ db = Null
  /\ clients = <<>>
  /\ handles = 0
  /\ connectCalls = 0
  /\ closeCalls = 0
  /\ coll \in {StoreAfter(n, m) : n \in 0..MaxList, m \in 0..MaxReviews}
  /\ live = Null
  /\ pageUrl = <<>>
  /\ argUrl = <<>>
  /\ lastCall = [op |-> "runQueries", raised |-> FALSE,
                 pre |-> [EmptyGateway EXCEPT !.coll = coll]]
  /\ pc = "q_connect"
  /\ productsToScrape = <<>>
  /\ listed = <<>>
  /\ index = 0
  /\ events = <<>>

\* What a step of runQueries leaves alone.
QueriesFrame ==
  UNCHANGED <<lastCall, pageUrl, argUrl, productsToScrape, listed>>

\* One awaited gateway call r of runQueries, named kind, going on to `next`.
QueriesStep(r, kind, next, nextIndex) ==
  /\ SetG(r.g)
  /\ live' = LiveAfter(r.database)
  /\ events' = events \o <<<<kind>>>>
                 \o (IF r.raised THEN <<<<"caughtRun">>>> ELSE <<>>)
  /\ pc' = IF r.raised THEN QueriesAfterFailure ELSE next
  /\ index' = IF r.raised THEN index ELSE nextIndex
  /\ QueriesFrame

\* 14: await connectToMongo()
QueriesConnect ==
  /\ pc = "q_connect"
  /\ \E co \in ConnChoices :
      \E r \in {connectToMongo(G, co)} :
        QueriesStep([r EXCEPT !.ret = Null] @@ [database |-> r.ret],
                    "connect", "q_count", 0)

\* 19-22: for each collection, (await findData(collection)).length
QueriesCount ==
  /\ pc = "q_count"
  /\ \E co \in ConnChoices :
      \E ro \in ReadChoices(co) :
       \E r \in {findData(G, CollectionOrder[index + 1], "all", co, ro)} :
         QueriesStep(r, "find",
                     IF index + 1 < Len(CollectionOrder) THEN "q_count"
                                                         ELSE "q_category",
                     IF index + 1 < Len(CollectionOrder) THEN index + 1
                                                         ELSE 0)

\* 26-32: await aggregateData(COLLECTIONS.PRODUCTS, [$group, $sort])
QueriesByCategory ==
  /\ pc = "q_category"
  /\ \E co \in ConnChoices :
      \E ro \in ReadChoices(co) :
       \E r \in {aggregateData(G, PRODUCTS, co, ro)} :
         QueriesStep(r, "aggregate", "q_price", index)

\* 42-85: await aggregateData(COLLECTIONS.PRODUCTS, price range pipeline);
\* avgPrice.toFixed(2) throws when the row holds no numeric price.
QueriesPriceRange ==
  /\ pc = "q_price"
  /\ \E co \in ConnChoices :
      \E ro \in ReadChoices(co) :
       \E r \in {aggregatePriceRange(G, PRODUCTS, co, ro)} :
        \E throws \in {r.ret # <<>> /\ r.ret[1].avgPrice = <<>>} :
         QueriesStep([r EXCEPT !.raised = r.raised \/ throws],
                     "aggregate", "q_top", index)

\* 89-92: await findData(COLLECTIONS.PRODUCTS, { rating: { $gte: 4 } })
QueriesTopRated ==
  /\ pc = "q_top"
  /\ \E co \in ConnChoices :
      \E ro \in ReadChoices(co) :
       \E r \in {findData(G, PRODUCTS, "ratingGte4", co, ro)} :
         QueriesStep(r, "find", "q_reviewed", index)

\* 109-112: await findData(COLLECTIONS.PRODUCTS,
\*                         { reviewCount: { $exists: true } })
QueriesMostReviewed ==
  /\ pc = "q_reviewed"
  /\ \E co \in ConnChoices :
      \E ro \in ReadChoices(co) :
       \E r \in {findData(G, PRODUCTS, "hasReviewCount", co, ro)} :
         QueriesStep(r, "find", "q_finally", index)

\* 132-135: finally { await closeMongo() }
QueriesFinally ==
  /\ pc = "q_finally"
  /\ SetG(closeMongo(G))
  /\ live' = Null
  /\ Log(<<"close">>)
  /\ pc' = "q_done"
  /\ UNCHANGED index
  /\ QueriesFrame

NextQueries ==
  \/ QueriesConnect
  \/ QueriesCount
  \/ QueriesByCategory
  \/ QueriesPriceRange
  \/ QueriesTopRated
  \/ QueriesMostReviewed
  \/ QueriesFinally

\* One run of runQueries.
SpecQueries == InitQueries /\ [][NextQueries]_vars

\* C12: runQueries inserts nothing: products, product_lists and reviews hold
\* at every step what they held when it started; and it ends with client and
\* db null and every client it created closed, also when a query failed.
C12_QueriesReadOnlyAndClose ==
  lastCall.op = "runQueries" =>
     /\ coll = lastCall.pre.coll
     /\ pc = "q_done" =>
          /\ client = Null
          /\ db = Null
          /\ \A i \in 1..Len(clients) : clients[i] = "closed"
          /\ events[Len(events)] = <<"close">>

C12_Witness ==
  /\ lastCall.op = "runQueries"
  /\ pc = "q_done"
  /\ Len(coll[PRODUCTS]) >= 2
  /\ \E q \in 1..Len(events) : events[q] = <<"aggregate">>
  /\ \E q \in 1..Len(events) : events[q] = <<"caughtRun">>
  /\ closeCalls = 1
  /\ client = Null

\* ------------------------------------------------ the loop body of main
\* Positions of the events of one kind for item i.
EventsOf(kind, i) ==
  {p \in 1..Len(events) : events[p][1] = kind /\ events[p][2] = i}

\* The inner catch handled a failure of the call logged at position p.
FailedAt(p) == p < Len(events) /\ events[p + 1][1] = "caughtItem"

\* The selected entries once the list scrape has returned.
SelectedItems == 1..Min(ItemLimit, Len(listed[1].products))

\* C13 (as claimed): when main has ended, for every selected entry a detail
\* scrape and, after it, a reviews scrape of the same entry's url were
\* started.
C13_BothScrapesAttempted ==
  (pc = "done" /\ listed # <<>>) =>
     \A i \in SelectedItems :
        \E p \in EventsOf("details", i) : \E q \in EventsOf("reviews", i) :
           /\ p < q
           /\ events[p][3] = listed[1].products[i].url
           /\ events[q][3] = listed[1].products[i].url

\* C13 (amended): a reviews scrape is started only directly after the detail
\* scrape of the same entry returned normally, with that entry's url; when
\* main has ended, every selected entry had its detail scrape started once,
\* and its reviews scrape started once exactly when the detail scrape did
\* not fail.
C13_ReviewsFollowSuccessfulDetails ==
  /\ \A q \in 1..Len(events) :
       events[q][1] = "reviews" =>
          /\ q > 1
          /\ events[q - 1] = <<"details", events[q][2], events[q][3]>>
          /\ events[q][3] = listed[1].products[events[q][2]].url
  /\ (pc = "done" /\ listed # <<>>) =>
       \A i \in SelectedItems :
          /\ Cardinality(EventsOf("details", i)) = 1
          /\ \A p \in EventsOf("details", i) :
               Cardinality(EventsOf("reviews", i)) =
                 IF FailedAt(p) THEN 0 ELSE 1

C13_Witness ==
  /\ pc = "done"
  /\ Len(productsToScrape) = 3
  /\ \E p \in EventsOf("details", 1) : FailedAt(p)
  /\ EventsOf("reviews", 1) = {}
  /\ \E q \in EventsOf("reviews", 2) : ~FailedAt(q)
  /\ EventsOf("reviews", 3) # {}

\* C14: the detail scrape of every selected item but the first is started
\* directly after the fixed delay that ends the processing of the item
\* before it.
C14_DelayBetweenItems ==
  \A q \in 1..Len(events) :
     (events[q][1] = "details" /\ events[q][2] > 1) =>
        \E p \in EventsOf("wait", events[q][2] - 1) :
           p < q /\ \A k \in (p + 1)..(q - 1) : events[k][1] = "caughtItem"

\* Positions at which the list scrape was started.
ListAttempts == {p \in 1..Len(events) : events[p] = <<"list">>}

RunFailedAt(p) == p < Len(events) /\ events[p + 1] = <<"caughtRun">>

\* C15: main starts the list scrape at most once, and when the list scrape
\* failed it starts no detail scrape, no reviews scrape and no reporting
\* query, and the next thing it does is close the connection.
C15_ListFailureEndsRun ==
  /\ Cardinality(ListAttempts) <= 1
  /\ \A p \in ListAttempts :
       RunFailedAt(p) =>
          /\ listed = <<>>
          /\ productsToScrape = <<>>
          /\ \A q \in 1..Len(events) :
               events[q][1] \notin {"details", "reviews", "aggregate", "find"}
          /\ pc \in {"finally", "done"}
          /\ \A q \in (p + 2)..Len(events) : events[q] = <<"close">>

C15_Witness ==
  /\ pc = "done"
  /\ \E p \in ListAttempts : RunFailedAt(p)
  /\ Len(coll[PRODUCT_LISTS]) = 1
  /\ coll[PRODUCTS] = <<>>

\* ------------------------------------------------- capture timestamps
Stamped(doc) == "dateScraped" \in DOMAIN doc /\ doc.dateScraped = NewDate

\* C16: every document in products, product_lists and reviews carries a
\* capture timestamp, and so does every product entry nested in a document
\* of product_lists; a scrape leaves the documents that were persisted
\* before it in place and unchanged.
C16_EveryDocumentStamped ==
  /\ \A c \in COLLECTIONS : \A i \in 1..Len(coll[c]) : Stamped(coll[c][i])
  /\ \A i \in 1..Len(coll[PRODUCT_LISTS]) :
       \A j \in 1..Len(coll[PRODUCT_LISTS][i].products) :
          Stamped(coll[PRODUCT_LISTS][i].products[j])
  /\ lastCall.op \in {"list", "details", "reviews"} =>
       \A c \in COLLECTIONS : KeptPrefix(c)

C16_Witness ==
  /\ lastCall.op = "details"
  /\ ~lastCall.raised
  /\ Len(Added(PRODUCTS)) = 1
  /\ lastCall.pre.coll[PRODUCTS] # <<>>
  /\ \E i \in 1..Len(coll[PRODUCT_LISTS]) :
       coll[PRODUCT_LISTS][i].products # <<>>

\* ==================================== index.ts: main run twice in a row
\* A second process runs main after a first one in which nothing failed:
\* client and db start null again, the store holds what the first run left,
\* and the first run's list and log are kept for comparison.
MainRunAgain ==
  /\ pc = "done"
  /\ lastCall.op = "none"
  /\ listed # <<>>
  /\ \A p \in 1..Len(events) : events[p][1] \notin {"caughtItem", "caughtRun"}
  /\ SetG([EmptyGateway EXCEPT !.coll = coll])
  /\ live' = Null
  /\ lastCall' = [op |-> "rerun", raised |-> FALSE, pre |-> G,
                  listed |-> listed, events |-> events]
  /\ pageUrl' = <<>>
  /\ pc' = "connect"
  /\ productsToScrape' = <<>>
  /\ listed' = <<>>
  /\ index' = 0
  /\ events' = <<>>
  /\ UNCHANGED argUrl

NextTwoRuns ==
  \/ NextMain
  \/ MainRunAgain

SpecTwoRuns == InitMain /\ [][NextTwoRuns]_vars

\* What the store held when the current run started.
RunStart == IF lastCall.op = "rerun" THEN lastCall.pre.coll
                                     ELSE [c \in COLLECTIONS |-> <<>>]

\* The documents the current run has added to collection c.
Gained(c) == SubSeq(coll[c], Len(RunStart[c]) + 1, Len(coll[c]))

\* The list scrape returned and no detail or reviews scrape failed.
ScrapesSucceeded ==
  /\ listed # <<>>
  /\ \A p \in 1..Len(events) :
       events[p][1] \in {"details", "reviews"} => ~FailedAt(p)

ReviewAttempts(log) == SelectSeq(log, LAMBDA e : e[1] = "reviews")

\* The second run extracted the same list and the same reviews as the first.
SameData ==
  /\ lastCall.op = "rerun"
  /\ listed = <<lastCall.listed[1]>>
  /\ ReviewAttempts(events) = ReviewAttempts(lastCall.events)

\* C18: a run of main whose list scrape returned L entries and in which
\* every scrape succeeded has added L + min(3, L) documents to products:
\* the L entries of the list in order, then one document per selected entry
\* with that entry's url; and one document to product_lists. A second such
\* run that extracts the same data leaves every collection with twice the
\* documents it held after the first.
C18_DuplicatesOnRescrape ==
  (pc = "done" /\ ScrapesSucceeded) =>
     /\ Len(Gained(PRODUCTS)) =
          Len(listed[1].products) + Min(ItemLimit, Len(listed[1].products))
     /\ Len(Gained(PRODUCT_LISTS)) = 1
     /\ \A i \in 1..Len(listed[1].products) :
          Gained(PRODUCTS)[i] = listed[1].products[i]
     /\ \A i \in SelectedItems :
          Gained(PRODUCTS)[Len(listed[1].products) + i].url =
            Gained(PRODUCTS)[i].url
     /\ SameData =>
          \A c \in COLLECTIONS : Len(coll[c]) = 2 * Len(lastCall.pre.coll[c])

C18_Witness ==
  /\ pc = "done"
  /\ ScrapesSucceeded
  /\ SameData
  /\ Len(listed[1].products) > ItemLimit
  /\ Len(coll[PRODUCTS]) = 2 * (Len(listed[1].products) + ItemLimit)
  /\ Len(coll[REVIEWS]) >= 2
  /\ Len(coll[PRODUCT_LISTS]) = 2

====
